---------------------------- MODULE Spec2Model ----------------------------
(* A model of starship's repository-inspection core (src/src/git.rs):       *)
(*   - parse_porcelain_output, the status parser            (SpecParse)     *)
(*   - Repository::get_state, the state-detection protocol  (SpecState)     *)
(*   - Repository::discover, the upward directory search    (SpecDiscover)  *)
(*   - the memoized accessors of one Repository instance    (Spec)          *)
(* Text is a sequence of one-character strings, so that splitting,          *)
(* trimming and parsing are computed the way the code computes them.        *)
EXTENDS Integers, Sequences, FiniteSets, TLC

VARIABLES
    \* ---- parse_porcelain_output
    porcelain,      \* the input text
    lines_left,     \* the lines the for_each has not visited yet
    vcs_status,     \* the GitStatus being accumulated
    line,           \* the line the closure visited last
    prev_status,    \* vcs_status as it was before that line
    n_parsed,       \* how many lines the closure has visited
    p_pc,           \* "idle" | "lines" | "done"
    \* ---- the metadata directory (.git) as get_state sees it
    markers,        \* the marker paths that exist
    counters,       \* counter file -> Absent | Unreadable | text
    \* ---- get_state
    state_result,   \* the GitState returned
    state_reads,    \* the counter files read, in order
    s_pc,           \* "idle" | "call" | "done" | "shown"
    \* ---- the git_state module (src/src/modules/git_state.rs)
    state_description,  \* None | the StateDescription made of state_result
    \* ---- discover
    git_roots,      \* the directories that contain a .git entry
    d_start,        \* the path discover was first called with
    d_path,         \* the path of the current (recursive) call
    d_examined,     \* the paths scanned so far, in order
    d_result,       \* None | a Repository
    d_pc,           \* "idle" | "discover" | "done"
    \* ---- one Repository instance and its environment
    head,           \* .git/HEAD: Absent | Unreadable | text
    tool,           \* command -> what exec_cmd answers now: Failure | text
    cells,          \* fact -> Unset | the cached value
    execs,          \* command -> how many times exec_cmd ran it
    first,          \* accessor -> NotCalled | the value its first call returned
    last_ret,       \* the last accessor call: what it returned and what it did
    head_read,      \* what get_branch read from HEAD (NotRead before)
    changed,        \* whether the environment changed since construction
    r_pc,           \* "idle" | "live" | "shared"
    \* ---- threads sharing the instance (the cells are sync::OnceCell)
    t_pc,           \* thread -> "idle" | "init" | "seeded"
    t_acc,          \* thread -> the accessor it is inside, or "none"
    cell_owner,     \* fact -> the thread initialising the cell, 0 for none
    cell_writes,    \* fact -> how many times the cell was written
    seen            \* fact -> the values its accessor has returned

parseVars == <<porcelain, lines_left, vcs_status, line, prev_status, n_parsed, p_pc>>
fsVars    == <<markers, counters>>
stateVars == <<state_result, state_reads, s_pc, state_description>>
discVars  == <<git_roots, d_start, d_path, d_examined, d_result, d_pc>>
repoVars  == <<head, tool, cells, execs, first, last_ret, head_read, changed, r_pc>>
threadVars == <<t_pc, t_acc, cell_owner, cell_writes, seen>>
vars      == <<parseVars, fsVars, stateVars, discVars, repoVars, threadVars>>

None == [some |-> FALSE]
Some(v) == [some |-> TRUE, value |-> v]

\* a file: not there, there but not readable as text, or its text
Absent == [kind |-> "absent", text |-> <<>>]
Unreadable == [kind |-> "unreadable", text |-> <<>>]
Text(t) == [kind |-> "text", text |-> t]

(***************************************************************************)
(* Text helpers                                                            *)
(***************************************************************************)
\* char::is_whitespace on the characters the model uses
IsWhitespace(c) == c \in {" ", "\n", "\r", "\t"}

RECURSIVE TrimStart(_)
TrimStart(s) ==
    IF s # <<>> /\ IsWhitespace(Head(s)) THEN TrimStart(Tail(s)) ELSE s

RECURSIVE TrimEnd(_)
TrimEnd(s) ==
    IF s # <<>> /\ IsWhitespace(s[Len(s)])
    THEN TrimEnd(SubSeq(s, 1, Len(s) - 1))
    ELSE s

Trim(s) == TrimEnd(TrimStart(s))

\* the index of the last c in s, 0 when there is none (str::rfind)
RECURSIVE RFind(_, _)
RFind(s, c) ==
    IF s = <<>> THEN 0
    ELSE IF s[Len(s)] = c THEN Len(s)
    ELSE RFind(SubSeq(s, 1, Len(s) - 1), c)

\* s cut at every "\n": one piece more than there are "\n"
RECURSIVE SplitNewline(_, _, _)
SplitNewline(s, cur, acc) ==
    IF s = <<>> THEN Append(acc, cur)
    ELSE IF Head(s) = "\n" THEN SplitNewline(Tail(s), <<>>, Append(acc, cur))
    ELSE SplitNewline(Tail(s), Append(cur, Head(s)), acc)

StripCR(l) ==
    IF l # <<>> /\ l[Len(l)] = "\r" THEN SubSeq(l, 1, Len(l) - 1) ELSE l

\* str::lines: "\n" and "\r\n" end a line, the last line needs no ending,
\* and no empty line follows a final line ending
Lines(s) ==
    LET pieces == SplitNewline(s, <<>>, <<>>)
        n == Len(pieces)
        terminated == [i \in 1..(n - 1) |-> StripCR(pieces[i])]
    IN  IF pieces[n] = <<>> THEN terminated ELSE Append(terminated, pieces[n])

(***************************************************************************)
(* parse_porcelain_output                                                  *)
(***************************************************************************)
MaxLen == 4

Alphabet == {"A", "M", "D", "R", "C", "U", "?", " ", "x", "\n"}

\* the input of tests::test_parse_porcelain_output, its paths shortened
TestPorcelain ==
    <<"M", " ", "a", "\n", "M", "M", " ", "b", "\n",
      "A", " ", "c", "\n", "?", " ", "d">>

PorcelainInputs ==
    UNION {[1..n -> Alphabet] : n \in 0..MaxLen} \cup {TestPorcelain}

GitStatusDefault ==
    [untracked |-> 0, added |-> 0, modified |-> 0, renamed |-> 0,
     deleted |-> 0, stashed |-> 0, unmerged |-> 0, ahead |-> 0,
     behind |-> 0, diverged |-> 0, conflicted |-> 0, staged |-> 0]

increment_git_status(st, letter) ==
    CASE letter = "A" -> [st EXCEPT !.added = @ + 1]
      [] letter = "M" -> [st EXCEPT !.modified = @ + 1]
      [] letter = "D" -> [st EXCEPT !.deleted = @ + 1]
      [] letter = "R" -> [st EXCEPT !.renamed = @ + 1]
      [] letter = "C" -> [st EXCEPT !.added = @ + 1]
      [] letter = "U" -> [st EXCEPT !.modified = @ + 1]
      [] letter = "?" -> [st EXCEPT !.untracked = @ + 1]
      [] OTHER -> st

\* the first two characters of a line, a space for each one missing
letter_codes(l) ==
    <<IF Len(l) >= 1 THEN l[1] ELSE " ",
      IF Len(l) >= 2 THEN l[2] ELSE " ">>

\* a plausible slip: the conflicted branch falls through to the letter lookup
for_each_line_fallthrough(st, l) ==
    LET lc == letter_codes(l)
    IN  IF lc[1] = lc[2]
        THEN increment_git_status([st EXCEPT !.conflicted = @ + 1], lc[2])
        ELSE increment_git_status(increment_git_status(st, "S"), lc[2])

\* a plausible slip: the first of the two codes is the one looked up
for_each_line_first_code(st, l) ==
    LET lc == letter_codes(l)
    IN  IF lc[1] = lc[2]
        THEN [st EXCEPT !.conflicted = @ + 1]
        ELSE increment_git_status(increment_git_status(st, "S"), lc[1])

\* the closure parse_porcelain_output runs on every line
for_each_line(st, l) ==
    LET lc == letter_codes(l)
    IN  IF lc[1] = lc[2]
        THEN [st EXCEPT !.conflicted = @ + 1]
        ELSE increment_git_status(increment_git_status(st, "S"), lc[2])

ParseLine ==
    /\ p_pc = "lines"
    /\ lines_left # <<>>
    /\ line' = Head(lines_left)
    /\ prev_status' = vcs_status
    /\ vcs_status' = for_each_line(vcs_status, Head(lines_left))
    /\ lines_left' = Tail(lines_left)
    /\ n_parsed' = n_parsed + 1
    /\ UNCHANGED <<porcelain, p_pc>>

ParseReturn ==
    /\ p_pc = "lines"
    /\ lines_left = <<>>
    /\ p_pc' = "done"
    /\ UNCHANGED <<porcelain, lines_left, vcs_status, line, prev_status, n_parsed>>

(***************************************************************************)
(* The metadata directory and Repository::get_state                        *)
(***************************************************************************)
MaxCount == 2

MarkerPaths ==
    {"MERGE_HEAD", "BISECT_LOG", "CHERRY_PICK_HEAD", "REVERT_HEAD",
     "rebase-merge", "rebase-merge/onto",
     "rebase-apply", "rebase-apply/rebasing", "rebase-apply/applying"}

CounterPaths ==
    {"rebase-merge/msgnum", "rebase-merge/end",
     "rebase-apply/next", "rebase-apply/last"}

\* the directory a path of the metadata directory lies in ("" for the top)
ParentDir(p) ==
    CASE p \in {"rebase-merge/onto", "rebase-merge/msgnum", "rebase-merge/end"}
            -> "rebase-merge"
      [] p \in {"rebase-apply/rebasing", "rebase-apply/applying",
                "rebase-apply/next", "rebase-apply/last"}
            -> "rebase-apply"
      [] OTHER -> ""

Digit(n) == <<"0", "1", "2", "3", "4", "5", "6", "7", "8", "9">>[n + 1]

RECURSIVE Decimal(_)
Decimal(n) == IF n < 10 THEN <<Digit(n)>> ELSE Append(Decimal(n \div 10), Digit(n % 10))

\* what a counter file may hold: a count as git writes it (with its line
\* ending), or something that is no number
CounterTexts == {Decimal(n) \o <<"\n">> : n \in 0..MaxCount} \cup {<<"x">>}

FileContents == {Absent, Unreadable} \cup {Text(t) : t \in CounterTexts}

WellFormedMarkers(m) == \A p \in m : ParentDir(p) = "" \/ ParentDir(p) \in m

MarkerSets == {m \in SUBSET MarkerPaths : WellFormedMarkers(m)}

\* a file can only be there when its directory is
CounterChoices(m, p) == IF ParentDir(p) \in m THEN FileContents ELSE {Absent}

IsDigit(c) == c \in {"0", "1", "2", "3", "4", "5", "6", "7", "8", "9"}

DigitValue(c) ==
    CASE c = "0" -> 0 [] c = "1" -> 1 [] c = "2" -> 2 [] c = "3" -> 3
      [] c = "4" -> 4 [] c = "5" -> 5 [] c = "6" -> 6 [] c = "7" -> 7
      [] c = "8" -> 8 [] c = "9" -> 9

RECURSIVE DigitsValue(_, _)
DigitsValue(s, acc) ==
    IF s = <<>> THEN acc ELSE DigitsValue(Tail(s), 10 * acc + DigitValue(Head(s)))

\* str::parse::<usize>: an optional "+", then digits only and at least one
\* (the texts of the model are far too short to overflow a usize)
ParseUsize(s) ==
    LET digits == IF s # <<>> /\ Head(s) = "+" THEN Tail(s) ELSE s
    IN  IF digits # <<>> /\ \A i \in 1..Len(digits) : IsDigit(digits[i])
        THEN Some(DigitsValue(digits, 0))
        ELSE None

\* utils::read_file(path).ok()
read_file(c, path) ==
    IF c[path].kind = "text" THEN Some(c[path].text) ELSE None

\* a plausible slip: the contents parsed as they are, line ending included
file_to_usize_untrimmed(c, path) ==
    LET contents == read_file(c, path)
    IN  IF ~contents.some THEN None ELSE ParseUsize(contents.value)

\* the closure file_to_usize
file_to_usize(c, path) ==
    LET contents == read_file(c, path)
    IN  IF ~contents.some THEN None ELSE ParseUsize(Trim(contents.value))

RebaseProgress(cur, tot) == [current |-> cur, total |-> tot]

RebaseProgressDefault == RebaseProgress(1, 1)

\* the closure paths_to_rebase_progress, with the files it read: `?` returns
\* at the first file that gives no number
paths_to_rebase_progress(c, current_path, total_path) ==
    LET cur == file_to_usize(c, current_path)
    IN  IF ~cur.some THEN [val |-> None, reads |-> <<current_path>>]
        ELSE LET tot == file_to_usize(c, total_path)
             IN  [val |-> IF tot.some
                          THEN Some(RebaseProgress(cur.value, tot.value))
                          ELSE None,
                  reads |-> <<current_path, total_path>>]

unwrap_or_default(progress) ==
    IF progress.some THEN progress.value ELSE RebaseProgressDefault

\* a plausible slip: the "applying" marker looked at before the "rebasing" one
rebase_apply_state_applying_first(m, c) ==
    LET progress == paths_to_rebase_progress(c, "rebase-apply/next", "rebase-apply/last")
    IN  IF "rebase-apply/applying" \in m
        THEN [state |-> [variant |-> "ApplyMailbox",
                         progress |-> unwrap_or_default(progress.val)],
              reads |-> progress.reads]
        ELSE IF "rebase-apply/rebasing" \in m
        THEN [state |-> [variant |-> "Rebase",
                         progress |-> unwrap_or_default(progress.val)],
              reads |-> progress.reads]
        ELSE [state |-> [variant |-> "ApplyMailboxOrRebase"],
              reads |-> progress.reads]

\* get_state once rebase-apply is known to exist
rebase_apply_state(m, c) ==
    LET progress == paths_to_rebase_progress(c, "rebase-apply/next", "rebase-apply/last")
    IN  IF "rebase-apply/rebasing" \in m
        THEN [state |-> [variant |-> "Rebase",
                         progress |-> unwrap_or_default(progress.val)],
              reads |-> progress.reads]
        ELSE IF "rebase-apply/applying" \in m
        THEN [state |-> [variant |-> "ApplyMailbox",
                         progress |-> unwrap_or_default(progress.val)],
              reads |-> progress.reads]
        ELSE [state |-> [variant |-> "ApplyMailboxOrRebase"],
              reads |-> progress.reads]

\* a plausible slip: the bisect log looked at before the merge head
get_state_bisect_first(m, c) ==
    IF "BISECT_LOG" \in m THEN [state |-> [variant |-> "Bisect"], reads |-> <<>>]
    ELSE IF "MERGE_HEAD" \in m THEN [state |-> [variant |-> "Merge"], reads |-> <<>>]
    ELSE IF "rebase-merge" \in m
    THEN LET progress ==
                 paths_to_rebase_progress(c, "rebase-merge/msgnum", "rebase-merge/end")
         IN  [state |-> [variant |-> "Rebase",
                         progress |-> unwrap_or_default(progress.val)],
              reads |-> progress.reads]
    ELSE IF "rebase-apply" \in m THEN rebase_apply_state(m, c)
    ELSE [state |-> [variant |-> "Clean"], reads |-> <<>>]

\* get_state as it would be with the cherry-pick and revert heads looked at
get_state_sequencer_heads(m, c) ==
    IF "MERGE_HEAD" \in m THEN [state |-> [variant |-> "Merge"], reads |-> <<>>]
    ELSE IF "BISECT_LOG" \in m THEN [state |-> [variant |-> "Bisect"], reads |-> <<>>]
    ELSE IF "rebase-merge" \in m
    THEN LET progress ==
                 paths_to_rebase_progress(c, "rebase-merge/msgnum", "rebase-merge/end")
         IN  [state |-> [variant |-> "Rebase",
                         progress |-> unwrap_or_default(progress.val)],
              reads |-> progress.reads]
    ELSE IF "rebase-apply" \in m THEN rebase_apply_state(m, c)
    ELSE IF "CHERRY_PICK_HEAD" \in m
    THEN [state |-> [variant |-> "CherryPick"], reads |-> <<>>]
    ELSE IF "REVERT_HEAD" \in m
    THEN [state |-> [variant |-> "Revert"], reads |-> <<>>]
    ELSE [state |-> [variant |-> "Clean"], reads |-> <<>>]

\* Repository::get_state: the GitState, and the counter files it read
get_state(m, c) ==
    IF "MERGE_HEAD" \in m THEN [state |-> [variant |-> "Merge"], reads |-> <<>>]
    ELSE IF "BISECT_LOG" \in m THEN [state |-> [variant |-> "Bisect"], reads |-> <<>>]
    ELSE IF "rebase-merge" \in m
    THEN LET progress ==
                 paths_to_rebase_progress(c, "rebase-merge/msgnum", "rebase-merge/end")
         IN  [state |-> [variant |-> "Rebase",
                         progress |-> unwrap_or_default(progress.val)],
              reads |-> progress.reads]
    ELSE IF "rebase-apply" \in m THEN rebase_apply_state(m, c)
    ELSE [state |-> [variant |-> "Clean"], reads |-> <<>>]

NoState == [variant |-> "<none>"]

GetState ==
    /\ s_pc = "call"
    /\ state_result' = get_state(markers, counters).state
    /\ state_reads' = get_state(markers, counters).reads
    /\ s_pc' = "done"
    /\ UNCHANGED <<state_description, fsVars>>

(***************************************************************************)
(* modules::git_state: the description of the state for display            *)
(***************************************************************************)
\* struct StateDescription; the label is named by its field of the config
StateDescription(label, current, total) ==
    [label |-> label, current |-> current, total |-> total]

\* get_state_description: every arm leaves current and total at None
get_state_description(st) ==
    CASE st.variant = "Clean" -> None
      [] st.variant = "Merge" -> Some(StateDescription("merge", None, None))
      [] st.variant = "Revert" -> Some(StateDescription("revert", None, None))
      [] st.variant = "CherryPick" -> Some(StateDescription("cherry_pick", None, None))
      [] st.variant = "Bisect" -> Some(StateDescription("bisect", None, None))
      [] st.variant = "ApplyMailbox" -> Some(StateDescription("am", None, None))
      [] st.variant = "ApplyMailboxOrRebase" ->
             Some(StateDescription("am_or_rebase", None, None))
      [] st.variant = "Rebase" -> Some(StateDescription("rebase", None, None))

\* git_state::module up to the description it formats: repo.state() has
\* returned state_result
DescribeState ==
    /\ s_pc = "done"
    /\ state_description' = get_state_description(state_result)
    /\ s_pc' = "shown"
    /\ UNCHANGED <<state_result, state_reads, fsVars>>

(***************************************************************************)
(* Repository::discover                                                    *)
(***************************************************************************)
MaxDepth == 3

MaxRoots == 2

DirNames == {"a", "b"}

\* absolute, normalised directory paths as their components; <<>> is "/"
DirPaths == UNION {[1..n -> DirNames] : n \in 0..MaxDepth}

\* Path::parent
parent(path) ==
    IF path = <<>> THEN None ELSE Some(SubSeq(path, 1, Len(path) - 1))

\* Path::join
join(path, name) == Append(path, name)

\* Path::exists, for the paths discover asks about
path_exists(roots, path) ==
    /\ path # <<>>
    /\ path[Len(path)] = ".git"
    /\ SubSeq(path, 1, Len(path) - 1) \in roots

\* the sets of at most k directories
RECURSIVE RootSets(_)
RootSets(k) ==
    IF k = 0 THEN {{}}
    ELSE RootSets(k - 1) \cup {r \cup {d} : r \in RootSets(k - 1), d \in DirPaths}

Repository(git_dir, root_dir) == [git_dir |-> git_dir, root_dir |-> root_dir]

\* a plausible slip: the existence test left out
scan_unchecked(roots, path) ==
    Some(Repository(join(path, ".git"), path))

\* Repository::scan
scan(roots, path) ==
    LET git_dir == join(path, ".git")
    IN  IF ~path_exists(roots, git_dir) THEN None
        ELSE Some(Repository(git_dir, path))

\* discover(path) where scan(path) finds the repository
DiscoverFound ==
    /\ d_pc = "discover"
    /\ scan(git_roots, d_path).some
    /\ d_result' = scan(git_roots, d_path)
    /\ d_examined' = Append(d_examined, d_path)
    /\ d_pc' = "done"
    /\ UNCHANGED <<git_roots, d_start, d_path>>

\* discover(path) where scan(path) finds nothing and path has a parent
DiscoverParent ==
    /\ d_pc = "discover"
    /\ ~scan(git_roots, d_path).some
    /\ parent(d_path).some
    /\ d_path' = parent(d_path).value
    /\ d_examined' = Append(d_examined, d_path)
    /\ UNCHANGED <<git_roots, d_start, d_result, d_pc>>

\* discover(path) where scan(path) finds nothing and path has no parent
DiscoverNone ==
    /\ d_pc = "discover"
    /\ ~scan(git_roots, d_path).some
    /\ ~parent(d_path).some
    /\ d_result' = None
    /\ d_examined' = Append(d_examined, d_path)
    /\ d_pc' = "done"
    /\ UNCHANGED <<git_roots, d_start, d_path>>

(***************************************************************************)
(* One Repository instance: the memoized accessors                         *)
(***************************************************************************)
\* "ref: refs/heads/f/x": HEAD on the branch f/x
HeadOnBranch ==
    <<"r", "e", "f", ":", " ", "r", "e", "f", "s", "/", "h", "e", "a", "d", "s",
      "/", "f", "/", "x", "\n">>

\* HEAD when detached: an object hash (shortened)
HeadDetached == <<"3", "d", "1", "5", "\n">>

HeadContents == {Unreadable, Text(HeadOnBranch), Text(HeadDetached)}

Commands == {"status", "rev-parse", "upstream"}

\* what exec_cmd gives back: no output (the command failed), or its stdout
Failure == [ok |-> FALSE, stdout |-> <<>>]
Output(t) == [ok |-> TRUE, stdout |-> t]

StatusOutput == <<" ", "M", " ", "a", "\n", "?", "?", " ", "b", "\n">>

HashOutput == <<"3", "d", "1", "5", "\n">>

\* "refs/remotes/o/f/x"
UpstreamOutput ==
    <<"r", "e", "f", "s", "/", "r", "e", "m", "o", "t", "e", "s", "/", "o", "/",
      "f", "/", "x", "\n">>

ToolAnswers(cmd) ==
    CASE cmd = "status" -> {Failure, Output(StatusOutput)}
      [] cmd = "rev-parse" -> {Failure, Output(HashOutput)}
      [] cmd = "upstream" -> {Failure, Output(UpstreamOutput)}

\* the upstream names get_remote is run on: every text of up to
\* MaxRemoteLen characters over RemoteAlphabet
MaxRemoteLen == 7

RemoteAlphabet == {"/", "o", "x"}

RemoteOutputs == UNION {[1..n -> RemoteAlphabet] : n \in 0..MaxRemoteLen}

\* utils::exec_cmd as the accessors see it
exec_cmd(t, cmd) == IF t[cmd].ok THEN Some(t[cmd].stdout) ELSE None

NoCounters == [p \in CounterPaths |-> Absent]

\* the metadata directories the instance is run against
RepoFsStates ==
    {<<{}, NoCounters>>,
     <<{"rebase-merge"},
       [NoCounters EXCEPT !["rebase-merge/msgnum"] = Text(<<"1", "\n">>),
                          !["rebase-merge/end"] = Text(<<"2", "\n">>)]>>}

Facts == {"status", "branch", "remote", "state", "hash"}

EmptyCells == [f \in Facts |-> None]

\* the threads that share one Repository
NumThreads == 2

Threads == 1..NumThreads

\* OnceCell::set: only an empty cell takes the value
cell_set(cell, v) == IF cell.some THEN cell ELSE Some(v)

RECURSIVE fold_lines(_, _)
fold_lines(st, ls) ==
    IF ls = <<>> THEN st ELSE fold_lines(for_each_line(st, Head(ls)), Tail(ls))

parse_porcelain_output(text) == fold_lines(GitStatusDefault, Lines(text))

get_status(t) ==
    LET output == exec_cmd(t, "status")
    IN  IF output.some THEN parse_porcelain_output(output.value)
        ELSE GitStatusDefault

\* a plausible slip: the accessor computes the status on every call
status_recomputed(c, t) ==
    LET v == get_status(t)
    IN  [val |-> v, cells |-> [c EXCEPT !.status = Some(v)], ran |-> {"status"}]

\* Repository::status: the value returned, the cells after the call and the
\* commands it ran
status(c, t) ==
    IF c.status.some
    THEN [val |-> c.status.value, cells |-> c, ran |-> {}]
    ELSE LET v == get_status(t)
         IN  [val |-> v, cells |-> [c EXCEPT !.status = Some(v)],
              ran |-> {"status"}]

FallbackBranch == <<"H", "E", "A", "D">>

\* a plausible slip: the detached head is not handed to the hash cell
get_branch_unseeded(c, h) ==
    IF h.kind # "text" THEN [val |-> None, hash |-> c.hash]
    ELSE LET branch_start == RFind(h.text, "/")
         IN  IF branch_start # 0
             THEN [val |-> Some(TrimEnd(SubSeq(h.text, branch_start + 1, Len(h.text)))),
                   hash |-> c.hash]
             ELSE [val |-> None, hash |-> c.hash]

\* Repository::get_branch: the branch name, and the hash cell after the call
get_branch(c, h) ==
    IF h.kind # "text" THEN [val |-> None, hash |-> c.hash]
    ELSE LET branch_start == RFind(h.text, "/")
         IN  IF branch_start # 0
             THEN [val |-> Some(TrimEnd(SubSeq(h.text, branch_start + 1, Len(h.text)))),
                   hash |-> c.hash]
             ELSE [val |-> None, hash |-> cell_set(c.hash, Some(h.text))]

\* Repository::branch
branch(c, h) ==
    IF c.branch.some
    THEN [val |-> c.branch.value, cells |-> c, ran |-> {}]
    ELSE LET b == get_branch(c, h)
             v == IF b.val.some THEN b.val.value ELSE FallbackBranch
         IN  [val |-> v,
              cells |-> [c EXCEPT !.branch = Some(v), !.hash = b.hash],
              ran |-> {}]

\* the index of the first c in s, 0 when there is none
RECURSIVE Find(_, _, _)
Find(s, c, i) ==
    IF i > Len(s) THEN 0 ELSE IF s[i] = c THEN i ELSE Find(s, c, i + 1)

\* str::splitn: at most n pieces, the last one holding the rest
RECURSIVE SplitN(_, _, _)
SplitN(s, n, sep) ==
    LET i == Find(s, sep, 1)
    IN  IF n <= 1 \/ i = 0 THEN <<s>>
        ELSE <<SubSeq(s, 1, i - 1)>> \o SplitN(SubSeq(s, i + 1, Len(s)), n - 1, sep)

Remote(name, br) == [name |-> name, branch |-> br]

\* get_remote splitting at every separator
get_remote_split_all(t) ==
    LET output == exec_cmd(t, "upstream")
    IN  IF ~output.some THEN None
        ELSE IF output.value = <<>> THEN None
        ELSE LET elements == SplitN(output.value, Len(output.value) + 1, "/")
             IN  IF Len(elements) < 3 THEN None
                 ELSE IF Len(elements) < 4 THEN None
                 ELSE Some(Remote(elements[3], elements[Len(elements)]))

get_remote(t) ==
    LET output == exec_cmd(t, "upstream")
    IN  IF ~output.some THEN None
        ELSE IF output.value = <<>> THEN None
        ELSE LET elements == SplitN(output.value, 4, "/")
                 \* nth(2) takes three elements, last() the last one left
             IN  IF Len(elements) < 3 THEN None
                 ELSE IF Len(elements) < 4 THEN None
                 ELSE Some(Remote(elements[3], elements[Len(elements)]))

\* Repository::remote
remote(c, t) ==
    IF c.remote.some
    THEN [val |-> c.remote.value, cells |-> c, ran |-> {}]
    ELSE LET v == get_remote(t)
         IN  [val |-> v, cells |-> [c EXCEPT !.remote = Some(v)],
              ran |-> {"upstream"}]

\* Repository::state
state(c, m, cnt) ==
    IF c.state.some
    THEN [val |-> c.state.value, cells |-> c, ran |-> {}]
    ELSE LET v == get_state(m, cnt).state
         IN  [val |-> v, cells |-> [c EXCEPT !.state = Some(v)], ran |-> {}]

get_commit_hash(t) ==
    LET output == exec_cmd(t, "rev-parse")
    IN  IF output.some THEN Some(output.value) ELSE None

\* a plausible slip: the accessor asks the tool without looking at the cell
commit_hash_uncached(c, t) ==
    LET v == get_commit_hash(t)
    IN  [val |-> v, cells |-> [c EXCEPT !.hash = Some(v)], ran |-> {"rev-parse"}]

\* Repository::commit_hash
commit_hash(c, t) ==
    IF c.hash.some
    THEN [val |-> c.hash.value, cells |-> c, ran |-> {}]
    ELSE LET v == get_commit_hash(t)
         IN  [val |-> v, cells |-> [c EXCEPT !.hash = Some(v)],
              ran |-> {"rev-parse"}]

NoCall == [acc |-> "none", val |-> None, ran |-> {}, after_branch |-> FALSE]

\* what a call of accessor acc with outcome r leaves behind
Returned(acc, r) ==
    /\ cells' = r.cells
    /\ execs' = [cmd \in Commands |-> execs[cmd] + IF cmd \in r.ran THEN 1 ELSE 0]
    /\ first' = IF first[acc].some THEN first ELSE [first EXCEPT ![acc] = Some(r.val)]
    /\ last_ret' = [acc |-> acc, val |-> r.val, ran |-> r.ran,
                    after_branch |-> cells.branch.some]

CallStatus ==
    /\ r_pc = "live"
    /\ Returned("status", status(cells, tool))
    /\ UNCHANGED <<head, tool, head_read, changed, r_pc, fsVars>>

CallBranch ==
    /\ r_pc = "live"
    /\ Returned("branch", branch(cells, head))
    /\ head_read' = IF cells.branch.some THEN head_read
                    ELSE Some([file |-> head, hash_was_unset |-> ~cells.hash.some])
    /\ UNCHANGED <<head, tool, changed, r_pc, fsVars>>

CallRemote ==
    /\ r_pc = "live"
    /\ Returned("remote", remote(cells, tool))
    /\ UNCHANGED <<head, tool, head_read, changed, r_pc, fsVars>>

CallState ==
    /\ r_pc = "live"
    /\ Returned("state", state(cells, markers, counters))
    /\ UNCHANGED <<head, tool, head_read, changed, r_pc, fsVars>>

CallCommitHash ==
    /\ r_pc = "live"
    /\ Returned("hash", commit_hash(cells, tool))
    /\ UNCHANGED <<head, tool, head_read, changed, r_pc, fsVars>>

\* the working copy and the tool change under the instance
ChangeHead ==
    /\ r_pc = "live"
    /\ head' \in HeadContents \ {head}
    /\ changed' = TRUE
    /\ UNCHANGED <<tool, cells, execs, first, last_ret, head_read, r_pc, fsVars>>

ChangeTool ==
    /\ r_pc = "live"
    /\ \E cmd \in Commands : \E a \in ToolAnswers(cmd) \ {tool[cmd]} :
           tool' = [tool EXCEPT ![cmd] = a]
    /\ changed' = TRUE
    /\ UNCHANGED <<head, cells, execs, first, last_ret, head_read, r_pc, fsVars>>

ChangeMetadata ==
    /\ r_pc = "live"
    /\ \E f \in RepoFsStates \ {<<markers, counters>>} :
           markers' = f[1] /\ counters' = f[2]
    /\ changed' = TRUE
    /\ UNCHANGED <<head, tool, cells, execs, first, last_ret, head_read, r_pc>>

(***************************************************************************)
(* One Repository shared by threads: once_cell::sync::OnceCell             *)
(***************************************************************************)
\* a cell whose emptiness is tested and whose value is stored with nothing
\* in between to keep a second initialiser out
get_or_init_unguarded(c, owner, f) ==
    IF c[f].some THEN "get" ELSE "init"

\* sync::OnceCell::get_or_init as a caller meets it: the value is there
\* ("get"), another thread is initialising and the caller blocks ("wait"),
\* or the caller becomes the one initialiser ("init")
get_or_init(c, owner, f) ==
    IF c[f].some THEN "get"
    ELSE IF owner[f] # 0 THEN "wait"
    ELSE "init"

\* the closure an accessor hands to get_or_init
init_value(f) ==
    CASE f = "status" -> get_status(tool)
      [] f = "remote" -> get_remote(tool)
      [] f = "state" -> get_state(markers, counters).state
      [] f = "hash" -> get_commit_hash(tool)

\* the command that closure runs
init_runs(f) ==
    CASE f = "status" -> {"status"}
      [] f = "remote" -> {"upstream"}
      [] f = "state" -> {}
      [] f = "hash" -> {"rev-parse"}

\* a thread calls an accessor: it returns the cell's value, or the thread
\* becomes the cell's initialiser; it blocks while another thread is
ThreadCall(t) ==
    /\ r_pc = "shared"
    /\ t_pc[t] = "idle"
    /\ \E f \in Facts :
           LET enter == get_or_init(cells, cell_owner, f)
           IN  \/ /\ enter = "get"
                  /\ seen' = [seen EXCEPT ![f] = @ \cup {cells[f].value}]
                  /\ UNCHANGED <<t_pc, t_acc, cell_owner>>
               \/ /\ enter = "init"
                  /\ t_pc' = [t_pc EXCEPT ![t] = "init"]
                  /\ t_acc' = [t_acc EXCEPT ![t] = f]
                  /\ cell_owner' = [cell_owner EXCEPT ![f] = t]
                  /\ UNCHANGED seen
    /\ UNCHANGED <<cells, cell_writes, execs, head, tool, first, last_ret,
                   head_read, changed, r_pc, fsVars>>

\* the initialiser of status, remote, state or hash runs its closure, the
\* cell takes the value and the accessor returns it
ThreadInit(t) ==
    /\ r_pc = "shared"
    /\ t_pc[t] = "init"
    /\ t_acc[t] \in {"status", "remote", "state", "hash"}
    /\ cells' = [cells EXCEPT ![t_acc[t]] = Some(init_value(t_acc[t]))]
    /\ cell_writes' = [cell_writes EXCEPT ![t_acc[t]] = @ + 1]
    /\ execs' = [cmd \in Commands |->
                    execs[cmd] + IF cmd \in init_runs(t_acc[t]) THEN 1 ELSE 0]
    /\ seen' = [seen EXCEPT ![t_acc[t]] = @ \cup {init_value(t_acc[t])}]
    /\ cell_owner' = [cell_owner EXCEPT ![t_acc[t]] = 0]
    /\ t_pc' = [t_pc EXCEPT ![t] = "idle"]
    /\ t_acc' = [t_acc EXCEPT ![t] = "none"]
    /\ UNCHANGED <<head, tool, first, last_ret, head_read, changed, r_pc, fsVars>>

\* whether get_branch reaches hash.set on this HEAD
SetsHash(h) == get_branch(EmptyCells, h).hash.some

\* the initialiser of branch runs get_branch: on a detached HEAD it calls
\* hash.set, which is get_or_init with the value at hand
ThreadBranchSeed(t) ==
    /\ r_pc = "shared"
    /\ t_pc[t] = "init"
    /\ t_acc[t] = "branch"
    /\ SetsHash(head) => get_or_init(cells, cell_owner, "hash") # "wait"
    /\ cells' = [cells EXCEPT !.hash = get_branch(cells, head).hash]
    /\ cell_writes' = [cell_writes EXCEPT
                          !.hash = @ + IF cells'.hash # cells.hash THEN 1 ELSE 0]
    /\ t_pc' = [t_pc EXCEPT ![t] = "seeded"]
    /\ UNCHANGED <<t_acc, cell_owner, seen, execs, head, tool, first, last_ret,
                   head_read, changed, r_pc, fsVars>>

\* the branch cell takes what get_branch returned, or the fallback
ThreadBranchStore(t) ==
    /\ r_pc = "shared"
    /\ t_pc[t] = "seeded"
    /\ LET b == get_branch(cells, head)
           v == IF b.val.some THEN b.val.value ELSE FallbackBranch
       IN  /\ cells' = [cells EXCEPT !.branch = Some(v)]
           /\ seen' = [seen EXCEPT !.branch = @ \cup {v}]
    /\ cell_writes' = [cell_writes EXCEPT !.branch = @ + 1]
    /\ cell_owner' = [cell_owner EXCEPT !.branch = 0]
    /\ t_pc' = [t_pc EXCEPT ![t] = "idle"]
    /\ t_acc' = [t_acc EXCEPT ![t] = "none"]
    /\ UNCHANGED <<execs, head, tool, first, last_ret, head_read, changed, r_pc,
                   fsVars>>

(***************************************************************************)
(* The specifications                                                      *)
(***************************************************************************)
\* parse_porcelain_output is handed an input; nothing else runs
InitParse ==
    /\ porcelain \in PorcelainInputs
    /\ lines_left = Lines(porcelain)
    /\ vcs_status = GitStatusDefault
    /\ line = <<>>
    /\ prev_status = GitStatusDefault
    /\ n_parsed = 0
    /\ p_pc = "lines"
    /\ markers = {}
    /\ counters = [p \in CounterPaths |-> Absent]
    /\ state_result = NoState
    /\ state_reads = <<>>
    /\ state_description = None
    /\ s_pc = "idle"
    /\ git_roots = {}
    /\ d_start = <<>>
    /\ d_path = <<>>
    /\ d_examined = <<>>
    /\ d_result = None
    /\ d_pc = "idle"
    /\ head = Unreadable
    /\ tool = [cmd \in Commands |-> Failure]
    /\ cells = EmptyCells
    /\ execs = [cmd \in Commands |-> 0]
    /\ first = [f \in Facts |-> None]
    /\ last_ret = NoCall
    /\ head_read = None
    /\ changed = FALSE
    /\ r_pc = "idle"
    /\ t_pc = [t \in Threads |-> "idle"]
    /\ t_acc = [t \in Threads |-> "none"]
    /\ cell_owner = [f \in Facts |-> 0]
    /\ cell_writes = [f \in Facts |-> 0]
    /\ seen = [f \in Facts |-> {}]

\* get_state is called on a metadata directory; nothing else runs
InitState ==
    /\ porcelain = <<>>
    /\ lines_left = <<>>
    /\ vcs_status = GitStatusDefault
    /\ line = <<>>
    /\ prev_status = GitStatusDefault
    /\ n_parsed = 0
    /\ p_pc = "idle"
    /\ markers \in MarkerSets
    /\ \E a \in CounterChoices(markers, "rebase-merge/msgnum"),
          b \in CounterChoices(markers, "rebase-merge/end"),
          x \in CounterChoices(markers, "rebase-apply/next"),
          y \in CounterChoices(markers, "rebase-apply/last") :
            counters = [p \in CounterPaths |->
                            CASE p = "rebase-merge/msgnum" -> a
                              [] p = "rebase-merge/end" -> b
                              [] p = "rebase-apply/next" -> x
                              [] p = "rebase-apply/last" -> y]
    /\ state_result = NoState
    /\ state_reads = <<>>
    /\ state_description = None
    /\ s_pc = "call"
    /\ git_roots = {}
    /\ d_start = <<>>
    /\ d_path = <<>>
    /\ d_examined = <<>>
    /\ d_result = None
    /\ d_pc = "idle"
    /\ head = Unreadable
    /\ tool = [cmd \in Commands |-> Failure]
    /\ cells = EmptyCells
    /\ execs = [cmd \in Commands |-> 0]
    /\ first = [f \in Facts |-> None]
    /\ last_ret = NoCall
    /\ head_read = None
    /\ changed = FALSE
    /\ r_pc = "idle"
    /\ t_pc = [t \in Threads |-> "idle"]
    /\ t_acc = [t \in Threads |-> "none"]
    /\ cell_owner = [f \in Facts |-> 0]
    /\ cell_writes = [f \in Facts |-> 0]
    /\ seen = [f \in Facts |-> {}]

\* discover is called on a directory; nothing else runs
InitDiscover ==
    /\ porcelain = <<>>
    /\ lines_left = <<>>
    /\ vcs_status = GitStatusDefault
    /\ line = <<>>
    /\ prev_status = GitStatusDefault
    /\ n_parsed = 0
    /\ p_pc = "idle"
    /\ markers = {}
    /\ counters = [p \in CounterPaths |-> Absent]
    /\ state_result = NoState
    /\ state_reads = <<>>
    /\ state_description = None
    /\ s_pc = "idle"
    /\ git_roots \in RootSets(MaxRoots)
    /\ d_start \in DirPaths
    /\ d_path = d_start
    /\ d_examined = <<>>
    /\ d_result = None
    /\ d_pc = "discover"
    /\ head = Unreadable
    /\ tool = [cmd \in Commands |-> Failure]
    /\ cells = EmptyCells
    /\ execs = [cmd \in Commands |-> 0]
    /\ first = [f \in Facts |-> None]
    /\ last_ret = NoCall
    /\ head_read = None
    /\ changed = FALSE
    /\ r_pc = "idle"
    /\ t_pc = [t \in Threads |-> "idle"]
    /\ t_acc = [t \in Threads |-> "none"]
    /\ cell_owner = [f \in Facts |-> 0]
    /\ cell_writes = [f \in Facts |-> 0]
    /\ seen = [f \in Facts |-> {}]

\* the state after discover built the Repository: every cell empty
Init ==
    /\ porcelain = <<>>
    /\ lines_left = <<>>
    /\ vcs_status = GitStatusDefault
    /\ line = <<>>
    /\ prev_status = GitStatusDefault
    /\ n_parsed = 0
    /\ p_pc = "idle"
    /\ state_result = NoState
    /\ state_reads = <<>>
    /\ state_description = None
    /\ s_pc = "idle"
    /\ git_roots = {}
    /\ d_start = <<>>
    /\ d_path = <<>>
    /\ d_examined = <<>>
    /\ d_result = None
    /\ d_pc = "idle"
    /\ head \in HeadContents
    /\ tool \in {t \in [Commands -> {Failure, Output(StatusOutput),
                                     Output(HashOutput), Output(UpstreamOutput)}] :
                    \A cmd \in Commands : t[cmd] \in ToolAnswers(cmd)}
    /\ \E f \in RepoFsStates : markers = f[1] /\ counters = f[2]
    /\ cells = EmptyCells
    /\ execs = [cmd \in Commands |-> 0]
    /\ first = [f \in Facts |-> None]
    /\ last_ret = NoCall
    /\ head_read = None
    /\ changed = FALSE
    /\ r_pc = "live"
    /\ t_pc = [t \in Threads |-> "idle"]
    /\ t_acc = [t \in Threads |-> "none"]
    /\ cell_owner = [f \in Facts |-> 0]
    /\ cell_writes = [f \in Facts |-> 0]
    /\ seen = [f \in Facts |-> {}]

\* parse_porcelain_output on every input of PorcelainInputs
ParseNext ==
    \/ ParseLine /\ UNCHANGED <<fsVars, stateVars, discVars, repoVars, threadVars>>
    \/ ParseReturn /\ UNCHANGED <<fsVars, stateVars, discVars, repoVars, threadVars>>

SpecParse ==
    /\ InitParse
    /\ [][ParseNext]_vars

\* get_state on every metadata directory, and the git_state module on what
\* it returns
StateNext ==
    \/ GetState /\ UNCHANGED <<parseVars, discVars, repoVars, threadVars>>
    \/ DescribeState /\ UNCHANGED <<parseVars, discVars, repoVars, threadVars>>

SpecState ==
    /\ InitState
    /\ [][StateNext]_vars

\* discover from every directory: a sequential call, which runs to its end
DiscNext ==
    \/ DiscoverFound /\ UNCHANGED <<parseVars, fsVars, stateVars, repoVars, threadVars>>
    \/ DiscoverParent /\ UNCHANGED <<parseVars, fsVars, stateVars, repoVars, threadVars>>
    \/ DiscoverNone /\ UNCHANGED <<parseVars, fsVars, stateVars, repoVars, threadVars>>

SpecDiscover ==
    /\ InitDiscover
    /\ [][DiscNext]_vars
    /\ WF_vars(DiscNext)

\* a fresh Repository whose tool answers the upstream query with any of
\* RemoteOutputs, or fails
InitRemote ==
    /\ porcelain = <<>>
    /\ lines_left = <<>>
    /\ vcs_status = GitStatusDefault
    /\ line = <<>>
    /\ prev_status = GitStatusDefault
    /\ n_parsed = 0
    /\ p_pc = "idle"
    /\ state_result = NoState
    /\ state_reads = <<>>
    /\ state_description = None
    /\ s_pc = "idle"
    /\ git_roots = {}
    /\ d_start = <<>>
    /\ d_path = <<>>
    /\ d_examined = <<>>
    /\ d_result = None
    /\ d_pc = "idle"
    /\ head = Text(HeadOnBranch)
    /\ \E up \in {Failure} \cup {Output(t) : t \in RemoteOutputs} :
          tool = [cmd \in Commands |-> IF cmd = "upstream" THEN up ELSE Failure]
    /\ markers = {}
    /\ counters = NoCounters
    /\ cells = EmptyCells
    /\ execs = [cmd \in Commands |-> 0]
    /\ first = [f \in Facts |-> None]
    /\ last_ret = NoCall
    /\ head_read = None
    /\ changed = FALSE
    /\ r_pc = "live"
    /\ t_pc = [t \in Threads |-> "idle"]
    /\ t_acc = [t \in Threads |-> "none"]
    /\ cell_owner = [f \in Facts |-> 0]
    /\ cell_writes = [f \in Facts |-> 0]
    /\ seen = [f \in Facts |-> {}]

\* remote() on every upstream answer
RemoteNext == CallRemote /\ UNCHANGED <<parseVars, stateVars, discVars, threadVars>>

SpecRemote ==
    /\ InitRemote
    /\ [][RemoteNext]_vars

\* a fresh Repository handed to the threads
InitThreads ==
    /\ porcelain = <<>>
    /\ lines_left = <<>>
    /\ vcs_status = GitStatusDefault
    /\ line = <<>>
    /\ prev_status = GitStatusDefault
    /\ n_parsed = 0
    /\ p_pc = "idle"
    /\ state_result = NoState
    /\ state_reads = <<>>
    /\ state_description = None
    /\ s_pc = "idle"
    /\ git_roots = {}
    /\ d_start = <<>>
    /\ d_path = <<>>
    /\ d_examined = <<>>
    /\ d_result = None
    /\ d_pc = "idle"
    /\ head \in HeadContents
    /\ tool \in {t \in [Commands -> {Failure, Output(StatusOutput),
                                     Output(HashOutput), Output(UpstreamOutput)}] :
                    \A cmd \in Commands : t[cmd] \in ToolAnswers(cmd)}
    /\ \E f \in RepoFsStates : markers = f[1] /\ counters = f[2]
    /\ cells = EmptyCells
    /\ execs = [cmd \in Commands |-> 0]
    /\ first = [f \in Facts |-> None]
    /\ last_ret = NoCall
    /\ head_read = None
    /\ changed = FALSE
    /\ r_pc = "shared"
    /\ t_pc = [t \in Threads |-> "idle"]
    /\ t_acc = [t \in Threads |-> "none"]
    /\ cell_owner = [f \in Facts |-> 0]
    /\ cell_writes = [f \in Facts |-> 0]
    /\ seen = [f \in Facts |-> {}]

\* the threads call the accessors of the shared instance in any interleaving
ThreadsNext ==
    \/ \E t \in Threads :
           ThreadCall(t) /\ UNCHANGED <<parseVars, stateVars, discVars>>
    \/ \E t \in Threads :
           ThreadInit(t) /\ UNCHANGED <<parseVars, stateVars, discVars>>
    \/ \E t \in Threads :
           ThreadBranchSeed(t) /\ UNCHANGED <<parseVars, stateVars, discVars>>
    \/ \E t \in Threads :
           ThreadBranchStore(t) /\ UNCHANGED <<parseVars, stateVars, discVars>>

SpecThreads ==
    /\ InitThreads
    /\ [][ThreadsNext]_vars

\* one Repository instance, its accessors called in any order while the
\* working copy and the tool's answers change
Next ==
    \/ CallStatus /\ UNCHANGED <<parseVars, stateVars, discVars, threadVars>>
    \/ CallBranch /\ UNCHANGED <<parseVars, stateVars, discVars, threadVars>>
    \/ CallRemote /\ UNCHANGED <<parseVars, stateVars, discVars, threadVars>>
    \/ CallState /\ UNCHANGED <<parseVars, stateVars, discVars, threadVars>>
    \/ CallCommitHash /\ UNCHANGED <<parseVars, stateVars, discVars, threadVars>>
    \/ ChangeHead /\ UNCHANGED <<parseVars, stateVars, discVars, threadVars>>
    \/ ChangeTool /\ UNCHANGED <<parseVars, stateVars, discVars, threadVars>>
    \/ ChangeMetadata /\ UNCHANGED <<parseVars, stateVars, discVars, threadVars>>

Spec ==
    /\ Init
    /\ [][Next]_vars

(***************************************************************************)
(* Properties of get_state (SpecState)                                     *)
(***************************************************************************)
HasProgress(st) == st.variant \in {"Rebase", "ApplyMailbox"}

\* the variants the precedence of the marker paths allows
VariantsByMarkers(m) ==
    IF "MERGE_HEAD" \in m THEN {"Merge"}
    ELSE IF "BISECT_LOG" \in m THEN {"Bisect"}
    ELSE IF "rebase-merge" \in m THEN {"Rebase"}
    ELSE IF "rebase-apply" \in m
    THEN {"Rebase", "ApplyMailbox", "ApplyMailboxOrRebase"}
    ELSE {"Clean"}

C2_RebaseApplySubState ==
    (/\ s_pc = "done"
     /\ "rebase-apply" \in markers
     /\ markers \cap {"MERGE_HEAD", "BISECT_LOG", "rebase-merge"} = {})
    => IF "rebase-apply/rebasing" \in markers
       THEN /\ state_result.variant = "Rebase"
            /\ DOMAIN state_result = {"variant", "progress"}
       ELSE IF "rebase-apply/applying" \in markers
       THEN /\ state_result.variant = "ApplyMailbox"
            /\ DOMAIN state_result = {"variant", "progress"}
       ELSE state_result = [variant |-> "ApplyMailboxOrRebase"]

\* both sub-markers exist, and the state is Rebase
C2_Witness ==
    /\ s_pc = "done"
    /\ markers \cap {"MERGE_HEAD", "BISECT_LOG", "rebase-merge"} = {}
    /\ {"rebase-apply/rebasing", "rebase-apply/applying"} \subseteq markers
    /\ state_result.variant = "Rebase"

\* a counter file that is readable and, trimmed, an unsigned integer
CounterParses(p) ==
    /\ counters[p].kind = "text"
    /\ ParseUsize(Trim(counters[p].text)).some

CounterValue(p) == ParseUsize(Trim(counters[p].text)).value

\* C3: the progress of a Rebase or ApplyMailbox is {current, total} as parsed
\* from the pair of counter files of the directory that decided the state
\* when both are readable and parse, trimmed, as unsigned integers, and is
\* {1,1} otherwise; when rebase-merge/msgnum is absent it is {1,1} with or
\* without an onto marker, and rebase-merge/end is not read.
C3_ProgressFromCounters ==
    (s_pc = "done" /\ HasProgress(state_result)) =>
        LET merge == "rebase-merge" \in markers
            cur == IF merge THEN "rebase-merge/msgnum" ELSE "rebase-apply/next"
            tot == IF merge THEN "rebase-merge/end" ELSE "rebase-apply/last"
        IN  /\ (CounterParses(cur) /\ CounterParses(tot))
                => state_result.progress
                       = RebaseProgress(CounterValue(cur), CounterValue(tot))
            /\ ~(CounterParses(cur) /\ CounterParses(tot))
                => state_result.progress = RebaseProgress(1, 1)
            /\ (merge /\ counters["rebase-merge/msgnum"] = Absent)
                => /\ state_result.progress = RebaseProgress(1, 1)
                   /\ \A i \in 1..Len(state_reads) :
                          state_reads[i] # "rebase-merge/end"

\* an interactive rebase at step 1 of 2, its counters written with line ends
C3_Witness ==
    /\ s_pc = "done"
    /\ "rebase-merge" \in markers
    /\ counters["rebase-merge/msgnum"] = Text(<<"1", "\n">>)
    /\ counters["rebase-merge/end"] = Text(<<"2", "\n">>)
    /\ state_result = [variant |-> "Rebase", progress |-> RebaseProgress(1, 2)]

\* C4: every RebaseProgress that state() returns has current >= 1 and
\* total >= 1, whatever the counter files hold.
C4_ProgressAtLeastOne ==
    (s_pc = "done" /\ HasProgress(state_result)) =>
        /\ state_result.progress.current >= 1
        /\ state_result.progress.total >= 1

(***************************************************************************)
(* Properties of parse_porcelain_output (SpecParse)                        *)
(***************************************************************************)
\* the two leading characters of the line are the same and no space
LeadsWithTwin(l) == Len(l) >= 2 /\ l[1] = l[2] /\ l[1] # " "

StartsWith(l, a, b) == Len(l) >= 2 /\ l[1] = a /\ l[2] = b

CountLines(ls, a, b) == Cardinality({i \in 1..Len(ls) : StartsWith(ls[i], a, b)})

\* C9: for an input whose lines each start with "M ", "MM", "A " or "? ",
\* modified is the number of lines starting "M " or "MM", added the number
\* starting "A ", untracked the number starting "? ", every other counter 0.
C9_FirstColumnLetterCounted ==
    LET ls == Lines(porcelain)
    IN  (/\ p_pc = "done"
         /\ \A i \in 1..Len(ls) :
                \/ StartsWith(ls[i], "M", " ") \/ StartsWith(ls[i], "M", "M")
                \/ StartsWith(ls[i], "A", " ") \/ StartsWith(ls[i], "?", " "))
        => vcs_status =
               [GitStatusDefault EXCEPT
                    !.modified = CountLines(ls, "M", " ") + CountLines(ls, "M", "M"),
                    !.added = CountLines(ls, "A", " "),
                    !.untracked = CountLines(ls, "?", " ")]

(***************************************************************************)
(* Properties of discover (SpecDiscover)                                   *)
(***************************************************************************)
\* path and its ancestors
SelfAndAncestors(path) == {SubSeq(path, 1, k) : k \in 0..Len(path)}

\* the i-th path of the walk up from path: path itself, then its parent, ...
WalkUp(path, i) == SubSeq(path, 1, Len(path) - (i - 1))

\* what discover has to return, and the paths it has to have scanned
DiscoverOutcome ==
    LET holders == SelfAndAncestors(d_start) \cap git_roots
    IN  IF holders = {}
        THEN /\ d_result = None
             /\ Len(d_examined) = Len(d_start) + 1
             /\ \A i \in 1..Len(d_examined) : d_examined[i] = WalkUp(d_start, i)
        ELSE LET nearest == CHOOSE h \in holders :
                                \A g \in holders : Len(g) <= Len(h)
             IN  /\ d_result = Some(Repository(Append(nearest, ".git"), nearest))
                 /\ Len(d_examined) = Len(d_start) - Len(nearest) + 1
                 /\ \A i \in 1..Len(d_examined) :
                        d_examined[i] = WalkUp(d_start, i)

\* C10: discover(p) scans p and then its ancestors, nearest first, returns
\* the Repository rooted at the first of them that holds .git, with
\* git_dir = root_dir/.git, returns nothing exactly when none of them holds
\* .git, and always comes to an end.
C10_DiscoverNearestAndTerminates ==
    /\ [](d_pc = "done" => DiscoverOutcome)
    /\ <>(d_pc = "done")

\* two ancestors hold .git; the nearer one, above the start, is returned
C10_Witness ==
    /\ d_pc = "done"
    /\ d_result.some
    /\ Cardinality(SelfAndAncestors(d_start) \cap git_roots) = 2
    /\ d_result.value.root_dir # d_start
    /\ Len(d_examined) >= 2

(***************************************************************************)
(* Properties of the memoized accessors (Spec)                             *)
(***************************************************************************)
\* the accessors that ask the external tool
ToolFacts == {"status", "remote", "hash"}

\* C5: whatever changes under the instance, each of status(), remote() and
\* commit_hash() runs the external tool at most once in all, and every call
\* returns what the first call of that accessor returned, a cached default
\* included.
C5_AtMostOnceAndStable ==
    /\ \A cmd \in Commands : execs[cmd] <= 1
    /\ last_ret.acc \in ToolFacts =>
           /\ first[last_ret.acc].some
           /\ last_ret.val = first[last_ret.acc].value

\* status() failed first and cached the all-zero status; the tool answers
\* now, and a later status() still returns the zeros without running it
C5_Witness ==
    /\ changed
    /\ tool["status"] = Output(StatusOutput)
    /\ first["status"] = Some(GitStatusDefault)
    /\ last_ret.acc = "status"
    /\ last_ret.ran = {}
    /\ last_ret.val = GitStatusDefault
    /\ execs["status"] = 1

\* a text without a slash: the HEAD of a detached head
IsDetachedText(f) == f.kind = "text" /\ RFind(f.text, "/") = 0

\* C6 as stated: with HEAD readable and free of slashes, branch() returns
\* "HEAD" and a commit_hash() made after branch() returns HEAD's text
\* without running the tool (taken with the working copy unchanged).
C6_HashAfterBranchIsHeadText ==
    (~changed /\ IsDetachedText(head)) =>
        /\ cells.branch.some => cells.branch.value = FallbackBranch
        /\ (last_ret.acc = "hash" /\ last_ret.after_branch) =>
               /\ last_ret.val = Some(head.text)
               /\ last_ret.ran = {}

\* C6, amended: when the first branch() reads a HEAD that is readable and
\* free of slashes, branch() returns "HEAD"; and if the hash cell was still
\* empty at that call, the cell holds the text read and every commit_hash()
\* returns that text without running the tool.
C6_SeededHashIsHeadText ==
    (head_read.some /\ IsDetachedText(head_read.value.file)) =>
        /\ cells.branch = Some(FallbackBranch)
        /\ last_ret.acc = "branch" => last_ret.val = FallbackBranch
        /\ head_read.value.hash_was_unset =>
               /\ cells.hash = Some(Some(head_read.value.file.text))
               /\ last_ret.acc = "hash" =>
                      /\ last_ret.val = Some(head_read.value.file.text)
                      /\ last_ret.ran = {}

\* branch() seeded the cell and a commit_hash() after it never ran the tool
C6_Witness ==
    /\ head_read.some
    /\ IsDetachedText(head_read.value.file)
    /\ head_read.value.hash_was_unset
    /\ last_ret.acc = "hash"
    /\ last_ret.val = Some(HeadDetached)
    /\ execs["rev-parse"] = 0

\* the cached facts other than the hash are what a fresh instance computes
OtherFactsAsFresh ==
    /\ cells.status.some => cells.status.value = get_status(tool)
    /\ cells.branch.some => cells.branch.value = branch(EmptyCells, head).val
    /\ cells.remote.some => cells.remote.value = get_remote(tool)
    /\ cells.state.some => cells.state.value = get_state(markers, counters).state

\* C7 as stated: with the working copy and the tool's answers fixed, every
\* accessor caches the value it computes when it is the first one called,
\* whichever order the accessors are first called in.
C7_FactsIndependentOfOrder ==
    ~changed =>
        /\ OtherFactsAsFresh
        /\ cells.hash.some => cells.hash.value = get_commit_hash(tool)

\* the first branch() met an empty hash cell and a detached HEAD
HashSeededByBranch ==
    /\ head_read.some
    /\ head_read.value.hash_was_unset
    /\ IsDetachedText(head_read.value.file)

\* C7, amended: with the working copy and the tool's answers fixed, status,
\* branch, remote and state cache the same value in every order of first
\* access; commit_hash caches HEAD's text when branch() was first called
\* before it on a readable, slash-free HEAD, and the tool's answer (absent
\* when it fails) otherwise.
C7_HashDependsOnBranchFirst ==
    ~changed =>
        /\ OtherFactsAsFresh
        /\ cells.hash.some =>
               cells.hash.value = IF HashSeededByBranch THEN Some(head.text)
                                  ELSE get_commit_hash(tool)

\* every fact is cached, the tool cannot tell the hash, and the hash cell
\* holds HEAD's text because branch() came first
C7_Witness ==
    /\ ~changed
    /\ \A f \in Facts : cells[f].some
    /\ first["hash"].some
    /\ ~tool["rev-parse"].ok
    /\ cells.hash = Some(Some(head.text))


(***************************************************************************)
(* C11: the remote is read from the third and the fourth part              *)
(***************************************************************************)

\* the positions of the separator in s
Slashes(s) == {i \in 1..Len(s) : s[i] = "/"}

\* the position of the k-th separator of s
KthSlash(s, k) ==
    CHOOSE i \in Slashes(s) : Cardinality({j \in Slashes(s) : j <= i}) = k

\* the remote the upstream answer out names: the text between the second
\* and the third separator, and everything after the third
RemoteNamedBy(out) ==
    IF ~out.ok \/ out.stdout = <<>> THEN None
    ELSE IF Cardinality(Slashes(out.stdout)) < 3 THEN None
    ELSE Some([name |-> SubSeq(out.stdout, KthSlash(out.stdout, 2) + 1,
                               KthSlash(out.stdout, 3) - 1),
               branch |-> SubSeq(out.stdout, KthSlash(out.stdout, 3) + 1,
                                 Len(out.stdout))])

\* C11: remote() is absent when the invocation fails, when its output is
\* empty and when the output has fewer than four parts at the separator;
\* otherwise the name is the third part and the branch is the whole rest
\* after the third separator, separators included.
C11_RemoteFromThirdAndFourthPart ==
    last_ret.acc = "remote" => last_ret.val = RemoteNamedBy(tool["upstream"])

\* remote() returned a remote whose branch holds a separator
C11_Witness ==
    /\ last_ret.acc = "remote"
    /\ last_ret.ran = {"upstream"}
    /\ last_ret.val.some
    /\ last_ret.val.value.name # <<>>
    /\ Slashes(last_ret.val.value.branch) # {}

(***************************************************************************)
(* C12: Revert and CherryPick are never returned                           *)
(***************************************************************************)

SequencerHeads == {"CHERRY_PICK_HEAD", "REVERT_HEAD"}

C13_DescriptionCarriesProgress ==
    s_pc = "shown" =>
        /\ state_result.variant = "Clean" => state_description = None
        /\ state_result.variant = "Rebase" =>
               /\ state_description.some
               /\ state_description.value.current
                      = Some(Decimal(state_result.progress.current))
               /\ state_description.value.total
                      = Some(Decimal(state_result.progress.total))

(***************************************************************************)
(* C14: threads sharing one Repository                                     *)
(***************************************************************************)

\* C14: with several threads calling the accessors of one Repository at
\* once, branch() and commit_hash() on a detached HEAD among them, under
\* every interleaving each cell is written at most once, the commands for
\* status, remote and commit_hash each run at most once, and all callers of
\* one accessor are returned the same value.
C14_CellsWrittenOnceUnderThreads ==
    /\ \A f \in Facts : cell_writes[f] <= 1
    /\ \A cmd \in Commands : execs[cmd] <= 1
    /\ \A f \in Facts : Cardinality(seen[f]) <= 1

\* the race on the hash cell is on: on a detached HEAD, with a tool whose
\* answer differs from HEAD's text, one thread is inside branch() before its
\* hash.set while another is inside commit_hash() as the cell's initialiser
C14_Witness ==
    /\ SetsHash(head)
    /\ ~tool["rev-parse"].ok
    /\ \E t \in Threads : t_acc[t] = "branch" /\ t_pc[t] = "init"
    /\ \E t \in Threads : t_acc[t] = "hash" /\ t_pc[t] = "init"
    /\ cell_owner["hash"] # 0
    /\ ~cells.hash.some

(***************************************************************************)
(* C15, C16: lines whose codes differ, and blank lines (SpecParse)         *)
(***************************************************************************)

\* the character at position i of the line, a space when the line is shorter
CodeAt(l, i) == IF Len(l) >= i THEN l[i] ELSE " "

\* the counter a code stands for
CounterOf(c) ==
    CASE c \in {"A", "C"} -> "added"
      [] c \in {"M", "U"} -> "modified"
      [] c = "D" -> "deleted"
      [] c = "R" -> "renamed"
      [] c = "?" -> "untracked"
      [] OTHER -> "none"

\* st with the counter named f one higher; st itself for no counter
Bumped(st, f) == IF f = "none" THEN st ELSE [st EXCEPT ![f] = @ + 1]

LeadsWithBlanks(l) ==
    \/ l = <<>>
    \/ l = <<" ">>
    \/ Len(l) >= 2 /\ l[1] = " " /\ l[2] = " "

\* C16: an empty line, a line of one space and a line led by two spaces
\* change no counter; conflicted goes up only on a line whose two leading
\* characters are identical and no space; and the empty input gives the
\* all-zero status.
C16_BlankLinesChangeNothing ==
    /\ (n_parsed > 0 /\ LeadsWithBlanks(line)) => vcs_status = prev_status
    /\ (n_parsed > 0 /\ vcs_status.conflicted # prev_status.conflicted)
           => LeadsWithTwin(line)
    /\ (p_pc = "done" /\ porcelain = <<>>) => vcs_status = GitStatusDefault

=============================================================================
